---------------------------- MODULE Spec2Model ----------------------------
(***************************************************************************)
(* Model of fetch_ind_eng_tests_bbb_2025.py: the match filter              *)
(* (is_ind_eng_test, within_series_window), the delivery flattener         *)
(* (flatten_match) and the scan loop of main.                              *)
(*                                                                         *)
(* Python values are tagged records [t |-> tag, v |-> payload]; a str is a *)
(* sequence of one-character strings, a list a sequence of values, a dict  *)
(* a function from key names to values (an absent key is a key outside its *)
(* DOMAIN).  An uncaught exception is the value Raise(kind).               *)
(***************************************************************************)
EXTENDS Integers, Sequences, FiniteSets, TLC

VARIABLES pc, arg, ret, archive, idx, rows, out_csv

vars == <<pc, arg, ret, archive, idx, rows, out_csv>>

---------------------------------------------------------------------------
(* Python values *)

None == [t |-> "none", v |-> <<>>]

Num(n) == [t |-> "int", v |-> n]

Str(s) == [t |-> "str", v |-> s]

List(s) == [t |-> "list", v |-> s]

Dict(f) == [t |-> "dict", v |-> f]

Bool(b) == [t |-> "bool", v |-> b]

Raise(kind) == [t |-> "raise", v |-> kind]

EmptyDict == Dict(<<>>)

IsRaise(x) == x.t = "raise"

\* bool(x): the truth value Python's `or`, `if` and `not` take of x
Truthy(x) ==
    CASE x.t = "none" -> FALSE
      [] x.t = "bool" -> x.v
      [] x.t = "int"  -> x.v # 0
      [] x.t = "str"  -> Len(x.v) > 0
      [] x.t = "list" -> Len(x.v) > 0
      [] x.t = "dict" -> DOMAIN x.v # {}
      [] OTHER        -> TRUE

\* a or b
Or(a, b) == IF Truthy(a) THEN a ELSE b

\* x.get(key, default): AttributeError when x is no dict
Get(x, key, default) ==
    IF x.t # "dict" THEN Raise("AttributeError")
    ELSE IF key \in DOMAIN x.v THEN x.v[key] ELSE default

HasKey(x, key) == x.t = "dict" /\ key \in DOMAIN x.v

---------------------------------------------------------------------------
(* str operations *)

UpperCase == <<"A","B","C","D","E","F","G","H","I","J","K","L","M",
               "N","O","P","Q","R","S","T","U","V","W","X","Y","Z">>

LowerCase == <<"a","b","c","d","e","f","g","h","i","j","k","l","m",
               "n","o","p","q","r","s","t","u","v","w","x","y","z">>

LowerChar(c) ==
    IF \E i \in DOMAIN UpperCase : UpperCase[i] = c
    THEN LowerCase[CHOOSE i \in DOMAIN UpperCase : UpperCase[i] = c]
    ELSE c

\* s.lower(): AttributeError when s is no str
Lower(s) ==
    IF s.t # "str" THEN Raise("AttributeError")
    ELSE Str([i \in DOMAIN s.v |-> LowerChar(s.v[i])])

Digits == <<"0","1","2","3","4","5","6","7","8","9">>

IsDigit(c) == \E i \in DOMAIN Digits : Digits[i] = c

DigitVal(c) == (CHOOSE i \in DOMAIN Digits : Digits[i] = c) - 1

RECURSIVE DecimalOf(_)
\* the decimal text of a natural number
DecimalOf(n) ==
    IF n < 10 THEN <<Digits[n + 1]>>
    ELSE DecimalOf(n \div 10) \o <<Digits[(n % 10) + 1]>>

\* str(x)
PyStr(x) ==
    CASE x.t = "str"  -> x
      [] x.t = "none" -> Str(<<"N","o","n","e">>)
      [] x.t = "int"  -> Str(DecimalOf(x.v))
      [] OTHER        -> Str(<<"?">>)

RECURSIVE JoinFrom(_, _)
\* sep.join(parts) for a sequence of str payloads, sep a str payload
JoinFrom(sep, parts) ==
    IF Len(parts) = 0 THEN <<>>
    ELSE IF Len(parts) = 1 THEN parts[1]
    ELSE parts[1] \o sep \o JoinFrom(sep, Tail(parts))

Comma == <<",">>

\* ",".join(parts): parts a sequence of str values
Join(parts) == Str(JoinFrom(Comma, [i \in DOMAIN parts |-> parts[i].v]))

---------------------------------------------------------------------------
(* datetime *)

IsLeap(y) == (y % 4 = 0) /\ ((y % 100 # 0) \/ (y % 400 = 0))

DaysInMonth(y, m) ==
    IF m = 2 THEN (IF IsLeap(y) THEN 29 ELSE 28)
    ELSE IF m \in {4, 6, 9, 11} THEN 30 ELSE 31

ValueError == Raise("ValueError")

Date(y, m, d) == [t |-> "date", v |-> <<y, m, d>>]

\* datetime.fromisoformat(s).date() on a date-only text YYYY-MM-DD; any text
\* that is not ten characters of that form, or names no calendar day, raises
\* ValueError.
fromisoformat(s) ==
    LET c == s.v IN
    IF Len(c) # 10 THEN ValueError
    ELSE IF ~(/\ \A i \in {1, 2, 3, 4, 6, 7, 9, 10} : IsDigit(c[i])
              /\ c[5] = "-" /\ c[8] = "-") THEN ValueError
    ELSE LET y == 1000 * DigitVal(c[1]) + 100 * DigitVal(c[2])
                  + 10 * DigitVal(c[3]) + DigitVal(c[4])
             m == 10 * DigitVal(c[6]) + DigitVal(c[7])
             d == 10 * DigitVal(c[9]) + DigitVal(c[10])
         IN IF y >= 1 /\ m >= 1 /\ m <= 12 /\ d >= 1 /\ d <= DaysInMonth(y, m)
            THEN Date(y, m, d) ELSE ValueError

\* a <= b on dates
DateLE(a, b) ==
    \/ a.v[1] < b.v[1]
    \/ a.v[1] = b.v[1] /\ a.v[2] < b.v[2]
    \/ a.v[1] = b.v[1] /\ a.v[2] = b.v[2] /\ a.v[3] <= b.v[3]

START == Date(2025, 6, 1)

END == Date(2025, 8, 31)

---------------------------------------------------------------------------
(* MatchFilter *)

RECURSIVE WindowLoop(_, _)
\* the loop of within_series_window from entry i of ds on
WindowLoop(ds, i) ==
    IF i > Len(ds) THEN FALSE
    ELSE LET dt == fromisoformat(PyStr(ds[i])) IN
         IF IsRaise(dt) THEN WindowLoop(ds, i + 1)
         ELSE IF DateLE(START, dt) /\ DateLE(dt, END) THEN TRUE
         ELSE WindowLoop(ds, i + 1)

RECURSIVE WindowLoopStopsAtError(_, _)
WindowLoopStopsAtError(ds, i) ==
    IF i > Len(ds) THEN FALSE
    ELSE LET dt == fromisoformat(PyStr(ds[i])) IN
         IF IsRaise(dt) THEN FALSE
         ELSE IF DateLE(START, dt) /\ DateLE(dt, END) THEN TRUE
         ELSE WindowLoopStopsAtError(ds, i + 1)

within_series_window_stops(info) ==
    WindowLoopStopsAtError(Or(Get(info, "dates", None), List(<<>>)).v, 1)

within_series_window(info) ==
    WindowLoop(Or(Get(info, "dates", None), List(<<>>)).v, 1)

TestLabel == Str(<<"t","e","s","t">>)

category_rejects_type_only(info) ==
    /\ Truthy(Get(info, "match_type", None))
    /\ Lower(Or(Get(info, "match_type", None), Str(<<>>))) # TestLabel

\* the condition of the first `if` of is_ind_eng_test
category_rejects(info) ==
    /\ Truthy(Or(Get(info, "match_type", None), Get(info, "match_type_number", None)))
    /\ Lower(Or(Get(info, "match_type", None), Str(<<>>))) # TestLabel

India == Str(<<"I","n","d","i","a">>)

England == Str(<<"E","n","g","l","a","n","d">>)

\* set(xs)
SetOf(xs) == {xs.v[i] : i \in DOMAIN xs.v}

teams_match_exactly(info) ==
    {India, England} = SetOf(Or(Get(info, "teams", None), List(<<>>)))

\* {"India", "England"}.issubset(set(info.get("teams") or []))
teams_match(info) ==
    {India, England} \subseteq SetOf(Or(Get(info, "teams", None), List(<<>>)))

is_ind_eng_test(info) ==
    IF category_rejects(info) THEN FALSE ELSE teams_match(info)

---------------------------------------------------------------------------
(* DeliveryFlattener *)

AttributeError == Raise("AttributeError")

\* the first exception among the values of a sequence
FirstRaise(xs) == xs[CHOOSE k \in DOMAIN xs : IsRaise(xs[k]) /\ \A j \in 1..(k - 1) : ~IsRaise(xs[j])]

AnyRaise(xs) == \E k \in DOMAIN xs : IsRaise(xs[k])

RECURSIVE ConcatAll(_)
\* balls after every batch of a sequence of batches was appended in order
ConcatAll(batches) ==
    IF Len(batches) = 0 THEN <<>>
    ELSE Head(batches) \o ConcatAll(Tail(batches))

RECURSIVE FielderNamesFrom(_, _)
\* [w.get("fielders", [{}])[0].get("name", "") for w in wicket_list if w.get("fielders")]
FielderNamesFrom(wl, i) ==
    IF i > Len(wl) THEN <<>>
    ELSE IF Truthy(Get(wl[i], "fielders", None))
         THEN <<Get(Get(wl[i], "fielders", List(<<EmptyDict>>)).v[1], "name", Str(<<>>))>>
              \o FielderNamesFrom(wl, i + 1)
         ELSE FielderNamesFrom(wl, i + 1)

RECURSIVE FielderNamesWithPlaceholders(_, _)
FielderNamesWithPlaceholders(wl, i) ==
    IF i > Len(wl) THEN <<>>
    ELSE <<Get(Or(Get(wl[i], "fielders", None), List(<<EmptyDict>>)).v[1], "name", Str(<<>>))>>
         \o FielderNamesWithPlaceholders(wl, i + 1)

wicket_fielders_placeholders(wicket_list) ==
    IF Truthy(wicket_list) THEN Join(FielderNamesWithPlaceholders(wicket_list.v, 1)) ELSE None

wicket_fielders_always_joined(wicket_list) ==
    Join(FielderNamesFrom(wicket_list.v, 1))

\* the "wicket_fielders" entry of a ball
wicket_fielders(wicket_list) ==
    IF Truthy(wicket_list) THEN Join(FielderNamesFrom(wicket_list.v, 1)) ELSE None

\* wicket_list = d.get("wickets", []) or []
wicket_list_of(d) == Or(Get(d, "wickets", List(<<>>)), List(<<>>))

runs_get_none(runs, key) == Get(runs, key, None)

\* runs.get(key, 0) and extras.get(key, 0)
runs_get(runs, key) == Get(runs, key, Num(0))

\* the match-level values flatten_match reads before its loops
MatchHeader(info) ==
    [match_id |-> IF Truthy(Get(info, "match_id", None)) THEN Get(info, "match_id", None)
                  ELSE Get(Get(info, "event", EmptyDict), "match_number", None),
     venue    |-> Get(info, "venue", None),
     city     |-> Get(info, "city", None),
     teams    |-> Get(info, "teams", None),
     dates    |-> Get(info, "dates", None),
     season   |-> Get(info, "season", None)]

\* the dict appended to balls for delivery d
DeliveryRecord(hdr, inn_no, team, over_no, d) ==
    IF d.t # "dict" THEN AttributeError
    ELSE
    LET runs        == Get(d, "runs", EmptyDict)
        wicket_list == wicket_list_of(d)
        extras      == Or(Get(d, "extras", EmptyDict), EmptyDict)
    IN
    IF runs.t # "dict" \/ extras.t # "dict" THEN AttributeError
    ELSE Dict(
      [match_id      |-> hdr.match_id,
       season        |-> hdr.season,
       date_list     |-> LET ds == Or(hdr.dates, List(<<>>)).v
                         IN Join([i \in DOMAIN ds |-> PyStr(ds[i])]),
       venue         |-> hdr.venue,
       city          |-> hdr.city,
       teams         |-> Join(Or(hdr.teams, List(<<>>)).v),
       innings       |-> Num(inn_no),
       batting_team  |-> team,
       over          |-> over_no,
       ball_label    |-> Get(d, "ball", None),
       batter        |-> Get(d, "batter", None),
       bowler        |-> Get(d, "bowler", None),
       non_striker   |-> Get(d, "non_striker", None),
       runs_batter   |-> runs_get(runs, "batter"),
       runs_extras   |-> runs_get(runs, "extras"),
       runs_total    |-> runs_get(runs, "total"),
       extra_byes    |-> runs_get(extras, "byes"),
       extra_legbyes |-> runs_get(extras, "legbyes"),
       extra_wides   |-> runs_get(extras, "wides"),
       extra_noballs |-> runs_get(extras, "noballs"),
       extra_penalty |-> runs_get(extras, "penalty"),
       wicket_kind       |-> IF Truthy(wicket_list)
                             THEN Get(wicket_list.v[1], "kind", None) ELSE None,
       wicket_player_out |-> IF Truthy(wicket_list)
                             THEN Get(wicket_list.v[1], "player_out", None) ELSE None,
       wicket_fielders   |-> wicket_fielders(wicket_list)])

\* the balls one over_block appends: the loop over its deliveries
OverRows(hdr, inn_no, team, over_block) ==
    IF over_block.t # "dict" THEN AttributeError
    ELSE LET over_no == Get(over_block, "over", None)
             ds      == Get(over_block, "deliveries", List(<<>>)).v
             recs    == [k \in DOMAIN ds |-> DeliveryRecord(hdr, inn_no, team, over_no, ds[k])]
         IN IF AnyRaise(recs) THEN FirstRaise(recs) ELSE List(recs)

InningsRowsReversedOvers(hdr, inn_no, inn) ==
    IF inn.t # "dict" THEN AttributeError
    ELSE LET team    == Get(inn, "team", None)
             overs   == Get(inn, "overs", List(<<>>)).v
             batches == [j \in DOMAIN overs |->
                            OverRows(hdr, inn_no, team, overs[Len(overs) + 1 - j])]
         IN IF AnyRaise(batches) THEN FirstRaise(batches)
            ELSE List(ConcatAll([j \in DOMAIN batches |-> batches[j].v]))

\* the balls one innings appends: the loop over its overs
InningsRows(hdr, inn_no, inn) ==
    IF inn.t # "dict" THEN AttributeError
    ELSE LET team    == Get(inn, "team", None)
             overs   == Get(inn, "overs", List(<<>>)).v
             batches == [j \in DOMAIN overs |-> OverRows(hdr, inn_no, team, overs[j])]
         IN IF AnyRaise(batches) THEN FirstRaise(batches)
            ELSE List(ConcatAll([j \in DOMAIN batches |-> batches[j].v]))

\* flatten_match(json_obj): the list balls, or the exception it raises
flatten_match(json_obj) ==
    IF json_obj.t # "dict" THEN AttributeError
    ELSE LET info == Get(json_obj, "info", EmptyDict) IN
    IF info.t # "dict" THEN AttributeError
    ELSE LET hdr     == MatchHeader(info)
             inns    == Get(json_obj, "innings", List(<<>>)).v
             batches == [i \in DOMAIN inns |-> InningsRows(hdr, i, inns[i])]
         IN IF AnyRaise(batches) THEN FirstRaise(batches)
            ELSE List(ConcatAll([i \in DOMAIN batches |-> batches[i].v]))

---------------------------------------------------------------------------
(* DatasetAssembler: the tidy-ups of main before to_csv *)

NA == [t |-> "NA", v |-> <<>>]

\* pd.to_numeric(x, errors="coerce") on an int or a missing value
to_numeric(x) == IF x.t = "int" THEN x ELSE NA

\* one row of the frame after the two column coercions
csv_row(r) ==
    Dict([r.v EXCEPT !.over = to_numeric(r.v.over),
                     !.runs_total = IF to_numeric(r.v.runs_total) = NA THEN Num(0)
                                    ELSE to_numeric(r.v.runs_total)])

---------------------------------------------------------------------------
(* Inputs: the documents and infos the operations are applied to *)

MaxTeams == 3

MaxDates == 2

MaxInnings == 2

MaxOvers == 2

MaxPerOver == 2

MaxBalls == 2

MaxEntries == 3

\* a key a dict does not hold
Absent == [t |-> "absent", v |-> <<>>]

\* the dict holding the keys of f whose value is not Absent
MkDict(f) == Dict([k \in {k \in DOMAIN f : f[k] # Absent} |-> f[k]])

SeqsUpTo(n, S) == UNION {[1..m -> S] : m \in 0..n}

Australia == Str(<<"A","u","s","t","r","a","l","i","a">>)

TeamNames == {India, England, Australia, Str(<<"i","n","d","i","a">>)}

MatchTypes ==
    {Absent, None, Str(<<>>), Str(<<"T","e","s","t">>), TestLabel,
     Str(<<"T","E","S","T">>), Str(<<"O","D","I">>), Str(<<"T","e","s","t","s">>)}

MatchTypeNumbers == {Absent, Num(0), Num(2587)}

D0601 == Str(<<"2","0","2","5","-","0","6","-","0","1">>)

D0831 == Str(<<"2","0","2","5","-","0","8","-","3","1">>)

D0620 == Str(<<"2","0","2","5","-","0","6","-","2","0">>)

D0531 == Str(<<"2","0","2","5","-","0","5","-","3","1">>)

D0901 == Str(<<"2","0","2","5","-","0","9","-","0","1">>)

D2024 == Str(<<"2","0","2","4","-","0","7","-","1","0">>)

D2026 == Str(<<"2","0","2","6","-","0","1","-","1","5">>)

D0631 == Str(<<"2","0","2","5","-","0","6","-","3","1">>)

D1301 == Str(<<"2","0","2","5","-","1","3","-","0","1">>)

DText == Str(<<"2","0"," ","J","u","n","e"," ","2","5">>)

\* the entries a dates list is drawn from: in the window, on its two ends,
\* one day outside each end, other years, no calendar day, no ISO text, null
DateEntries ==
    {D0601, D0831, D0620, D0531, D0901, D2024, D2026, D0631, D1301, DText,
     Str(<<>>), None}

Venue == Str(<<"L","o","r","d","s">>)

Season == Str(<<"2","0","2","5">>)

InfoOf(mt, mtn, teams, dates) ==
    MkDict([match_type |-> mt, match_type_number |-> mtn, teams |-> teams,
            dates |-> dates, venue |-> Venue, season |-> Season,
            event |-> Dict([match_number |-> Num(3)])])

TeamLists == {Absent, None} \cup {List(s) : s \in SeqsUpTo(MaxTeams, TeamNames)}

DateLists == {Absent, None} \cup {List(s) : s \in SeqsUpTo(MaxDates, DateEntries)}

\* infos that vary the category fields, infos that vary the teams, and infos
\* that vary the dates
FilterInfos ==
    {InfoOf(mt, mtn, teams, List(<<D0620>>)) :
        mt \in MatchTypes, mtn \in MatchTypeNumbers,
        teams \in {List(<<England, India>>), List(<<India>>), Absent}}
    \cup {InfoOf(mt, Absent, teams, List(<<D0620>>)) :
        mt \in {Str(<<"T","e","s","t">>), Absent}, teams \in TeamLists}
    \cup {InfoOf(Str(<<"T","e","s","t">>), Num(2587), List(<<England, India>>), dates) :
        dates \in DateLists}

GoodInfo == InfoOf(Str(<<"T","e","s","t">>), Absent, List(<<England, India>>),
                   List(<<D0620, Str(<<"2","0","2","5","-","0","6","-","2","1">>)>>))

PlayerA == Str(<<"A">>)

PlayerB == Str(<<"B">>)

PlayerC == Str(<<"C">>)

Wicket(kind, out, fielders) ==
    MkDict([kind |-> kind, player_out |-> out, fielders |-> fielders])

Fielder(name) == Dict([name |-> name])

Caught == Str(<<"c","a","u","g","h","t">>)

RunOut == Str(<<"r","u","n"," ","o","u","t">>)

Bowled == Str(<<"b","o","w","l","e","d">>)

WicketA == Wicket(Caught, PlayerA, List(<<Fielder(PlayerA)>>))

WicketB == Wicket(RunOut, PlayerB, List(<<Fielder(PlayerB), Fielder(PlayerC)>>))

WicketNoKey == Wicket(Bowled, PlayerC, Absent)

WicketNoFielder == Wicket(RunOut, PlayerA, List(<<>>))

WicketSub == Wicket(Caught, PlayerB, List(<<Dict([substitute |-> Bool(TRUE)])>>))

\* the values of a delivery's "wickets"
WicketChoices ==
    {Absent, None, List(<<>>), List(<<WicketA>>), List(<<WicketB>>),
     List(<<WicketNoKey>>), List(<<WicketNoFielder>>), List(<<WicketSub>>),
     List(<<WicketA, WicketB>>), List(<<WicketB, WicketA>>),
     List(<<WicketNoKey, WicketB>>), List(<<WicketA, WicketNoFielder>>),
     List(<<WicketA, WicketNoKey, WicketB>>), List(<<WicketNoFielder, WicketNoKey>>)}

RunsFull == Dict([batter |-> Num(4), extras |-> Num(1), total |-> Num(5)])

\* the values of a delivery's "runs"
RunsChoices ==
    {Absent, None, EmptyDict, RunsFull, Dict([total |-> Num(1)]),
     Dict([batter |-> None, extras |-> Num(0), total |-> Num(0)]),
     Dict([batter |-> Num(2), total |-> None])}

\* the values of a delivery's "extras"
ExtrasChoices ==
    {Absent, None, EmptyDict, Dict([legbyes |-> Num(1)]),
     Dict([wides |-> None, byes |-> Num(2)]),
     Dict([byes |-> Num(1), legbyes |-> Num(2), wides |-> Num(3),
           noballs |-> Num(4), penalty |-> Num(5)])}

Delivery(ball, runs, extras, wickets) ==
    MkDict([ball |-> ball, batter |-> PlayerA, bowler |-> PlayerB,
            non_striker |-> PlayerC, runs |-> runs, extras |-> extras,
            wickets |-> wickets])

Ball01 == Str(<<"0",".","1">>)

DeliveryPool ==
    {Delivery(Ball01, RunsFull, Absent, w) : w \in WicketChoices}
    \cup {Delivery(Ball01, r, Absent, Absent) : r \in RunsChoices}
    \cup {Delivery(Ball01, RunsFull, e, Absent) : e \in ExtrasChoices}
    \cup {Delivery(Absent, EmptyDict, None, None)}

Over(over_no, deliveries) == MkDict([over |-> over_no, deliveries |-> deliveries])

Innings(team, overs) == MkDict([team |-> team, overs |-> overs])

Match(info, innings) == MkDict([info |-> info, innings |-> innings])

\* the deliveries bowled before the varied one
EarlierDeliveries ==
    {Delivery(Str(<<"0",".","0">>), RunsFull, Absent, Absent),
     Delivery(Str(<<"0",".","w">>), EmptyDict, Dict([wides |-> Num(1)]),
              List(<<WicketB>>)),
     Delivery(Absent, Absent, Absent, None)}

\* documents of one innings and one over, varying what a delivery holds and
\* how many deliveries come before it
DetailDocs ==
    {Match(GoodInfo, List(<<Innings(India, List(<<Over(Num(0), List(Append(ds, d)))>>))>>)) :
        ds \in SeqsUpTo(MaxBalls - 1, EarlierDeliveries), d \in DeliveryPool}

BattingAt(i) == IF i % 2 = 1 THEN England ELSE India

\* the over number an over of a shaped document carries: overs need not be
\* numbered from the start of the innings
OverNoAt(i, j) == 10 * (i - 1) + 2 * (j - 1)

BallAt(i, j, k) ==
    Delivery(Str(DecimalOf(OverNoAt(i, j)) \o <<".">> \o DecimalOf(k)),
             Dict([batter |-> Num(k), extras |-> Num(0), total |-> Num(k)]),
             Absent, Absent)

ShapedDoc(sh) ==
    Match(GoodInfo,
          List([i \in DOMAIN sh |->
                 Innings(BattingAt(i),
                         List([j \in DOMAIN sh[i] |->
                                Over(Num(OverNoAt(i, j)),
                                     List([k \in 1..sh[i][j] |-> BallAt(i, j, k)]))]))]))

\* the shape of the innings around the varied one: no over, or one over of
\* one delivery
PlainInnings == {<<>>, <<1>>}

\* documents varying the number of innings and, in one innings of them, the
\* number of overs and of deliveries of each over
ShapedDocs ==
    {ShapedDoc([i \in 1..n |-> IF i = p THEN sh ELSE others[i]]) :
        n  \in 1..MaxInnings, p \in 1..MaxInnings,
        sh \in SeqsUpTo(MaxOvers, 0..MaxPerOver),
        others \in [1..MaxInnings -> PlainInnings]}

\* documents lacking a level of the nesting
SparseDocs ==
    {EmptyDict, Match(GoodInfo, Absent), Match(Absent, List(<<>>)),
     Match(GoodInfo, List(<<Innings(India, Absent)>>)),
     Match(GoodInfo, List(<<Innings(Absent, List(<<Over(Absent, Absent)>>))>>)),
     Match(GoodInfo, List(<<Innings(India, List(<<Over(Absent,
                List(<<Delivery(Ball01, RunsFull, Absent, Absent)>>))>>))>>))}

FlattenDocs == DetailDocs \cup ShapedDocs \cup SparseDocs

\* an archive member: whether its name ends in ".json", and what json.load
\* gives for it (the decoded value, or the exception raised)
Entry(is_json, content) == [is_json |-> is_json, content |-> content]

JSONDecodeError == Raise("JSONDecodeError")

OneBall(ball, runs, wickets) ==
    List(<<Innings(England, List(<<Over(Num(0),
              List(<<Delivery(ball, runs, Absent, wickets)>>))>>))>>)

TwoBalls ==
    List(<<Innings(India, List(<<Over(Num(4),
              List(<<Delivery(Str(<<"4",".","1">>), RunsFull, Absent, Absent),
                     Delivery(Str(<<"4",".","2">>), EmptyDict, Absent,
                              List(<<WicketA>>))>>))>>))>>)

InfoWith(mt, teams, dates) == InfoOf(mt, Absent, teams, dates)

TestType == Str(<<"T","e","s","t">>)

\* the members an archive is made of
EntryPool ==
    {Entry(FALSE, JSONDecodeError),
     Entry(TRUE, JSONDecodeError),
     Entry(TRUE, List(<<>>)),
     Entry(TRUE, Match(None, List(<<>>))),
     Entry(TRUE, Match(GoodInfo, TwoBalls)),
     Entry(TRUE, Match(GoodInfo, OneBall(Ball01, RunsFull, Absent))),
     Entry(TRUE, Match(GoodInfo, List(<<>>))),
     Entry(TRUE, Match(GoodInfo, OneBall(Ball01, None, Absent))),
     Entry(TRUE, Match(InfoWith(Str(<<"O","D","I">>), List(<<England, India>>),
                                List(<<D0620>>)), TwoBalls)),
     Entry(TRUE, Match(InfoWith(TestType, List(<<India, Australia>>),
                                List(<<D0620>>)), TwoBalls)),
     Entry(TRUE, Match(InfoWith(TestType, List(<<India, England>>),
                                List(<<D2024>>)), TwoBalls))}

---------------------------------------------------------------------------
(* The filter applied to one info *)

InitFilter ==
    /\ pc = "call"
    /\ arg \in FilterInfos
    /\ ret = None
    /\ archive = <<>> /\ idx = 0 /\ rows = <<>> /\ out_csv = None

\* the two predicates main evaluates on an info
ApplyFilter ==
    /\ pc = "call"
    /\ pc' = "return"
    /\ ret' = Dict([is_ind_eng_test      |-> Bool(is_ind_eng_test(arg)),
                    within_series_window |-> Bool(within_series_window(arg))])
    /\ UNCHANGED <<arg, archive, idx, rows, out_csv>>

NextFilter == ApplyFilter

SpecFilter == InitFilter /\ [][NextFilter]_vars

---------------------------------------------------------------------------
(* flatten_match applied to one document *)

InitFlatten ==
    /\ pc = "call"
    /\ arg \in FlattenDocs
    /\ ret = None
    /\ archive = <<>> /\ idx = 0 /\ rows = <<>> /\ out_csv = None

ApplyFlatten ==
    /\ pc = "call"
    /\ pc' = "return"
    /\ ret' = flatten_match(arg)
    /\ UNCHANGED <<arg, archive, idx, rows, out_csv>>

NextFlatten == ApplyFlatten

SpecFlatten == InitFlatten /\ [][NextFlatten]_vars

---------------------------------------------------------------------------
(* main: the scan of the archive, then the exit or the save *)

\* json_files: the members whose name ends in ".json", in archive order
json_files == SelectSeq(archive, LAMBDA e : e.is_json)

Init ==
    /\ pc = "scan"
    /\ archive \in SeqsUpTo(MaxEntries, EntryPool)
    /\ idx = 0
    /\ rows = <<>>
    /\ out_csv = None
    /\ arg = None /\ ret = None

\* the member the loop is at
Current == json_files[idx + 1]

AtMember == pc = "scan" /\ idx < Len(json_files)

\* what the loop body raises on a decoded obj, if anything: obj.get, the two
\* predicates on info, then flatten_match
BodyRaises(obj) ==
    \/ obj.t # "dict"
    \/ Get(obj, "info", EmptyDict).t # "dict"
    \/ /\ is_ind_eng_test(Get(obj, "info", EmptyDict))
       /\ within_series_window(Get(obj, "info", EmptyDict))
       /\ IsRaise(flatten_match(obj))

Passes(obj) ==
    /\ is_ind_eng_test(Get(obj, "info", EmptyDict))
    /\ within_series_window(Get(obj, "info", EmptyDict))

extend_front(old, new) == new \o old

\* rows.extend(new)
extend(old, new) == old \o new

\* json.load raised: `continue`
ScanUndecodable ==
    /\ AtMember
    /\ IsRaise(Current.content)
    /\ idx' = idx + 1
    /\ UNCHANGED <<pc, arg, ret, archive, rows, out_csv>>

\* one of the two `continue` of the filter
ScanRejected ==
    /\ AtMember
    /\ ~IsRaise(Current.content)
    /\ ~BodyRaises(Current.content)
    /\ ~Passes(Current.content)
    /\ idx' = idx + 1
    /\ UNCHANGED <<pc, arg, ret, archive, rows, out_csv>>

\* rows.extend(flatten_match(obj))
ScanAccepted ==
    /\ AtMember
    /\ ~IsRaise(Current.content)
    /\ ~BodyRaises(Current.content)
    /\ Passes(Current.content)
    /\ rows' = extend(rows, flatten_match(Current.content).v)
    /\ idx' = idx + 1
    /\ UNCHANGED <<pc, arg, ret, archive, out_csv>>

\* an exception of the loop body outside the try: it leaves main
ScanRaises ==
    /\ AtMember
    /\ ~IsRaise(Current.content)
    /\ BodyRaises(Current.content)
    /\ pc' = "raised"
    /\ UNCHANGED <<arg, ret, archive, idx, rows, out_csv>>

\* if not rows: raise SystemExit(...)
ExitEmpty ==
    /\ pc = "scan" /\ idx = Len(json_files)
    /\ rows = <<>>
    /\ pc' = "SystemExit"
    /\ UNCHANGED <<arg, ret, archive, idx, rows, out_csv>>

\* the frame, its two coercions, to_csv
SaveCsv ==
    /\ pc = "scan" /\ idx = Len(json_files)
    /\ rows # <<>>
    /\ out_csv' = List([i \in DOMAIN rows |-> csv_row(rows[i])])
    /\ pc' = "saved"
    /\ UNCHANGED <<arg, ret, archive, idx, rows>>

Next ==
    \/ ScanUndecodable
    \/ ScanRejected
    \/ ScanAccepted
    \/ ScanRaises
    \/ ExitEmpty
    \/ SaveCsv

Spec == Init /\ [][Next]_vars

---------------------------------------------------------------------------
(* Reading a document for the properties below *)

HasAt(x, key) == IF HasKey(x, key) THEN x.v[key] ELSE None

ListAt(x, key) == IF HasKey(x, key) /\ x.v[key].t = "list" THEN x.v[key].v ELSE <<>>

InningsOf(doc) == ListAt(doc, "innings")

OversOf(doc, i) == ListAt(InningsOf(doc)[i], "overs")

DeliveriesOf(doc, i, j) == ListAt(OversOf(doc, i)[j], "deliveries")

\* the places <<innings, over, delivery>> of a document's deliveries
Slots(doc) ==
    UNION {UNION {{<<i, j, k>> : k \in 1..Len(DeliveriesOf(doc, i, j))} :
                  j \in 1..Len(OversOf(doc, i))} :
           i \in 1..Len(InningsOf(doc))}

DeliveryAt(doc, s) == DeliveriesOf(doc, s[1], s[2])[s[3]]

RECURSIVE BallsInOvers(_, _, _)
\* the deliveries of the first j overs of innings i
BallsInOvers(doc, i, j) ==
    IF j = 0 THEN 0
    ELSE BallsInOvers(doc, i, j - 1) + Len(DeliveriesOf(doc, i, j))

RECURSIVE BallsInInnings(_, _)
\* the deliveries of the first i innings
BallsInInnings(doc, i) ==
    IF i = 0 THEN 0
    ELSE BallsInInnings(doc, i - 1) + BallsInOvers(doc, i, Len(OversOf(doc, i)))

\* the 1-based rank of a delivery in innings -> over -> delivery order
Rank(doc, s) ==
    BallsInInnings(doc, s[1] - 1) + BallsInOvers(doc, s[1], s[2] - 1) + s[3]

\* a document of the data model's shape: a runs breakdown, where a delivery
\* has one, is a breakdown
DataModelDoc(doc) ==
    /\ doc.t = "dict"
    /\ \A s \in Slots(doc) :
          ~HasKey(DeliveryAt(doc, s), "runs") \/ DeliveryAt(doc, s).v.runs.t = "dict"

\* the record flatten_match returned for the delivery at place s
RecordAt(s) == ret.v[Rank(arg, s)].v

Returned == pc = "return"

---------------------------------------------------------------------------
(* Properties of the delivery flattener, under SpecFlatten *)

\* C5: flatten_match returns one record per delivery, in innings -> over ->
\* delivery order; the record of a delivery carries the 1-based position of
\* its innings, the batting team of that innings, the over's own "over"
\* value and the delivery's own label and players.
C5_OneRecordPerDeliveryInOrder ==
    (Returned /\ DataModelDoc(arg)) =>
        /\ ret.t = "list"
        /\ Len(ret.v) = BallsInInnings(arg, Len(InningsOf(arg)))
        /\ \A s \in Slots(arg) :
              /\ RecordAt(s).innings = Num(s[1])
              /\ RecordAt(s).batting_team = HasAt(InningsOf(arg)[s[1]], "team")
              /\ RecordAt(s).over = HasAt(OversOf(arg, s[1])[s[2]], "over")
              /\ RecordAt(s).ball_label = HasAt(DeliveryAt(arg, s), "ball")
              /\ RecordAt(s).batter = HasAt(DeliveryAt(arg, s), "batter")
              /\ RecordAt(s).runs_total =
                    (IF HasKey(HasAt(DeliveryAt(arg, s), "runs"), "total")
                     THEN DeliveryAt(arg, s).v.runs.v.total ELSE Num(0))

\* two innings, the first of two overs holding two deliveries and one, the
\* second of one over: four records, the last of innings 2
C5_Witness ==
    /\ Returned
    /\ Len(InningsOf(arg)) = 2
    /\ Len(OversOf(arg, 1)) = 2
    /\ Len(DeliveriesOf(arg, 1, 1)) = 2
    /\ Len(DeliveriesOf(arg, 1, 2)) = 1
    /\ Len(OversOf(arg, 2)) = 1
    /\ ret.t = "list" /\ Len(ret.v) = 4
    /\ ret.v[4].v.innings = Num(2)
    /\ ret.v[3].v.over = Num(2)

RECURSIVE SplitAtCommas(_)
\* the pieces of a text between its commas
SplitAtCommas(text) ==
    IF \A i \in DOMAIN text : text[i] # ","
    THEN <<text>>
    ELSE LET p == CHOOSE i \in DOMAIN text :
                     text[i] = "," /\ \A j \in 1..(i - 1) : text[j] # ","
         IN <<SubSeq(text, 1, p - 1)>> \o SplitAtCommas(SubSeq(text, p + 1, Len(text)))

HasFielder(w) == Len(ListAt(w, "fielders")) > 0

FirstFielderName(w) ==
    IF HasKey(w.v.fielders.v[1], "name") THEN w.v.fielders.v[1].v.name.v ELSE <<>>

\* the first fielder's name of each wicket entry that has a fielder, in order
FirstFielderNames(wl) ==
    LET with == SelectSeq(wl, HasFielder)
    IN [i \in DOMAIN with |-> FirstFielderName(with[i])]

WicketsAt(doc, s) == ListAt(DeliveryAt(doc, s), "wickets")

\* C6: for a delivery with wicket entries, wicket_kind and wicket_player_out
\* are those of the first entry, and wicket_fielders is a text whose pieces
\* between commas are exactly the first fielder names of the entries that
\* have a fielder, in order (the empty text when no entry has one).
C6_FirstWicketAndFielderNames ==
    (Returned /\ DataModelDoc(arg)) =>
        \A s \in Slots(arg) :
            Len(WicketsAt(arg, s)) > 0 =>
                /\ RecordAt(s).wicket_kind = HasAt(WicketsAt(arg, s)[1], "kind")
                /\ RecordAt(s).wicket_player_out = HasAt(WicketsAt(arg, s)[1], "player_out")
                /\ RecordAt(s).wicket_fielders.t = "str"
                /\ IF FirstFielderNames(WicketsAt(arg, s)) = <<>>
                   THEN RecordAt(s).wicket_fielders.v = <<>>
                   ELSE SplitAtCommas(RecordAt(s).wicket_fielders.v)
                            = FirstFielderNames(WicketsAt(arg, s))

\* a delivery of three wicket entries, the middle one without fielders:
\* "A,B", and the first entry's kind and player
C6_Witness ==
    /\ Returned /\ ret.t = "list"
    /\ \E s \in Slots(arg) :
          /\ WicketsAt(arg, s) = <<WicketA, WicketNoKey, WicketB>>
          /\ RecordAt(s).wicket_fielders = Str(<<"A", ",", "B">>)
          /\ RecordAt(s).wicket_kind = Caught
          /\ RecordAt(s).wicket_player_out = PlayerA

\* C7: a delivery whose wickets are absent, null or an empty list gets a
\* record with null wicket_kind, wicket_player_out and wicket_fielders, and
\* flatten_match returns.
C7_NoWicketNullFields ==
    (Returned /\ DataModelDoc(arg)) =>
        /\ ret.t = "list"
        /\ \A s \in Slots(arg) :
              Len(WicketsAt(arg, s)) = 0 =>
                  /\ RecordAt(s).wicket_kind = None
                  /\ RecordAt(s).wicket_player_out = None
                  /\ RecordAt(s).wicket_fielders = None

\* the three ways of having no wicket, each flattened to null fields
C7_Witness ==
    /\ Returned /\ ret.t = "list"
    /\ \E s \in Slots(arg) :
          /\ HasKey(DeliveryAt(arg, s), "wickets")
          /\ DeliveryAt(arg, s).v.wickets = None
          /\ RecordAt(s).wicket_fielders = None
          /\ RecordAt(s).wicket_kind = None
    /\ \E s \in Slots(arg) : ~HasKey(DeliveryAt(arg, s), "wickets")

\* <<breakdown, subfield, column>> of the eight numeric columns
NumericColumns ==
    {<<"runs", "batter", "runs_batter">>, <<"runs", "extras", "runs_extras">>,
     <<"runs", "total", "runs_total">>, <<"extras", "byes", "extra_byes">>,
     <<"extras", "legbyes", "extra_legbyes">>, <<"extras", "wides", "extra_wides">>,
     <<"extras", "noballs", "extra_noballs">>, <<"extras", "penalty", "extra_penalty">>}

\* the source value of a column is absent or null, at either level
MissingOrNull(d, c) ==
    \/ HasAt(d, c[1]) = None
    \/ HasAt(HasAt(d, c[1]), c[2]) = None

\* the source value of a column is absent: no breakdown key, no subfield
\* key, or (extras only) a null breakdown
AbsentSource(d, c) ==
    \/ ~HasKey(d, c[1])
    \/ c[1] = "extras" /\ d.v.extras = None
    \/ d.v[c[1]].t = "dict" /\ ~HasKey(d.v[c[1]], c[2])

\* C8 as claimed: a numeric column is 0 whenever its source value is absent
\* or null, and flatten_match never fails over it.
C8_MissingOrNullIsZero ==
    Returned =>
        /\ ret.t = "list"
        /\ \A s \in Slots(arg) : \A c \in NumericColumns :
              MissingOrNull(DeliveryAt(arg, s), c) => RecordAt(s)[c[3]] = Num(0)

\* C8 amended: a numeric column is 0 whenever its source value is absent
\* (the subfield or the whole breakdown not present, or the extras breakdown
\* null), and flatten_match returns.
C8_AbsentIsZero ==
    (Returned /\ DataModelDoc(arg)) =>
        /\ ret.t = "list"
        /\ \A s \in Slots(arg) : \A c \in NumericColumns :
              AbsentSource(DeliveryAt(arg, s), c) => RecordAt(s)[c[3]] = Num(0)

\* a delivery without runs, one with null extras, one with a partial runs
\* breakdown: zeros in their columns
C8_Witness ==
    /\ Returned /\ ret.t = "list"
    /\ \E s \in Slots(arg) :
          /\ ~HasKey(DeliveryAt(arg, s), "runs")
          /\ RecordAt(s).runs_batter = Num(0) /\ RecordAt(s).runs_total = Num(0)
    /\ \E s \in Slots(arg) :
          /\ HasKey(DeliveryAt(arg, s), "extras")
          /\ DeliveryAt(arg, s).v.extras = None
          /\ RecordAt(s).extra_wides = Num(0)

---------------------------------------------------------------------------
(* Properties of the match filter, under SpecFilter *)

\* a text that reads "test" whatever the case of its letters
ReadsTest(text) ==
    /\ Len(text) = 4
    /\ text[1] \in {"t", "T"} /\ text[2] \in {"e", "E"}
    /\ text[3] \in {"s", "S"} /\ text[4] \in {"t", "T"}

NamesAType(info) ==
    /\ HasKey(info, "match_type")
    /\ info.v.match_type.t = "str" /\ Len(info.v.match_type.v) > 0

NamesANumber(info) ==
    /\ HasKey(info, "match_type_number")
    /\ info.v.match_type_number.t = "int" /\ info.v.match_type_number.v # 0

\* C2 as claimed: the category check rejects only an info whose match_type
\* is present and is not "test" in any case; an info without a match_type
\* key passes it.
C2_RejectsOnlyAPresentOtherType ==
    Returned =>
        /\ category_rejects(arg) =>
              (HasKey(arg, "match_type") /\ ~ReadsTest(arg.v.match_type.v))
        /\ ~HasKey(arg, "match_type") => ~category_rejects(arg)

\* C2 amended: the category check rejects exactly the infos that name a
\* type (a non-empty match_type) other than "test" in any case, and the
\* infos that name no type but a non-zero match_type_number; is_ind_eng_test
\* is false of every info it rejects.
C2_RejectsOtherTypeOrNumberAlone ==
    Returned =>
        /\ category_rejects(arg) <=>
              \/ NamesAType(arg) /\ ~ReadsTest(arg.v.match_type.v)
              \/ ~NamesAType(arg) /\ NamesANumber(arg)
        /\ category_rejects(arg) => ret.v.is_ind_eng_test = Bool(FALSE)

\* India and England, no match_type key, match_type_number 2587: rejected
C2_Witness ==
    /\ Returned
    /\ ~HasKey(arg, "match_type")
    /\ HasAt(arg, "match_type_number") = Num(2587)
    /\ HasAt(arg, "teams") = List(<<England, India>>)
    /\ ret.v.is_ind_eng_test = Bool(FALSE)

\* C3: of an info that passes the category check, is_ind_eng_test is true
\* exactly when some entry of teams is "India" and some entry is "England".
C3_TrueIffBothTeamsListed ==
    (Returned /\ ~category_rejects(arg)) =>
        (ret.v.is_ind_eng_test = Bool(TRUE) <=>
            /\ \E i \in DOMAIN ListAt(arg, "teams") : ListAt(arg, "teams")[i] = India
            /\ \E i \in DOMAIN ListAt(arg, "teams") : ListAt(arg, "teams")[i] = England)

\* three teams, England last and India first with another between: accepted
C3_Witness ==
    /\ Returned
    /\ ListAt(arg, "teams") = <<India, Australia, England>>
    /\ ~category_rejects(arg)
    /\ ret.v.is_ind_eng_test = Bool(TRUE)

\* the day count of a date text, 0 when the text is no calendar date
DayNumber(e) ==
    IF e.t # "str" \/ IsRaise(fromisoformat(e)) THEN 0
    ELSE 10000 * fromisoformat(e).v[1] + 100 * fromisoformat(e).v[2]
         + fromisoformat(e).v[3]

\* C4: within_series_window is true exactly when some entry of dates is a
\* calendar date from 2025-06-01 to 2025-08-31, both days included, whatever
\* the entries before it.
C4_TrueIffSomeDateInWindow ==
    Returned =>
        (ret.v.within_series_window = Bool(TRUE) <=>
            \E i \in DOMAIN ListAt(arg, "dates") :
                /\ DayNumber(ListAt(arg, "dates")[i]) >= 20250601
                /\ DayNumber(ListAt(arg, "dates")[i]) <= 20250831)

\* month 13, then the last day of the window: accepted
C4_Witness ==
    /\ Returned
    /\ ListAt(arg, "dates") = <<D1301, D0831>>
    /\ ret.v.within_series_window = Bool(TRUE)

---------------------------------------------------------------------------
(* Properties of main, under Spec *)

\* a member json.load decodes to a document whose info passes the category
\* check, the team check and the date-window check
PassesAllThree(e) ==
    /\ ~IsRaise(e.content)
    /\ e.content.t = "dict"
    /\ Get(e.content, "info", EmptyDict).t = "dict"
    /\ ~category_rejects(Get(e.content, "info", EmptyDict))
    /\ teams_match(Get(e.content, "info", EmptyDict))
    /\ within_series_window(Get(e.content, "info", EmptyDict))

RECURSIVE RowsOfFirst(_)
\* flatten_match of the passing documents among the first n, in order
RowsOfFirst(n) ==
    IF n = 0 THEN <<>>
    ELSE RowsOfFirst(n - 1)
         \o (IF PassesAllThree(json_files[n])
             THEN flatten_match(json_files[n].content).v ELSE <<>>)

IsPrefix(a, b) == Len(a) <= Len(b) /\ SubSeq(b, 1, Len(a)) = a

\* C1: after any number of members scanned, rows is the concatenation in
\* archive order of flatten_match of the scanned documents that pass the
\* three checks; a step never removes or reorders what rows holds.
C1_RowsAreThePassingFlattened ==
    /\ [](rows = RowsOfFirst(idx))
    /\ [][IsPrefix(rows, rows')]_vars

\* a rejected document between two accepted ones: the two records of the
\* first, then the record of the other
C1_Witness ==
    /\ pc = "saved"
    /\ Len(json_files) = 3 /\ idx = 3
    /\ PassesAllThree(json_files[1])
    /\ ~PassesAllThree(json_files[2]) /\ ~IsRaise(json_files[2].content)
    /\ PassesAllThree(json_files[3])
    /\ Len(rows) = 3
    /\ rows[1].v.ball_label = Str(<<"4", ".", "1">>)
    /\ rows[3].v.ball_label = Ball01

\* a member that does not decode, or decodes to a document the loop body
\* fails on
Malformed(e) == IsRaise(e.content) \/ BodyRaises(e.content)

\* C9 as claimed: a malformed document is skipped, rows unchanged, and the
\* scan goes on with the next member.
C9_MalformedIsSkipped ==
    [][(AtMember /\ Malformed(Current))
          => (pc' = "scan" /\ idx' = idx + 1 /\ rows' = rows)]_vars

Ended == pc \in {"SystemExit", "saved", "raised"}

\* C10 as claimed: a run over an archive none of whose documents passes
\* the three checks ends in SystemExit with every member scanned and no
\* output written; output is written only with rows not empty.
C10_EmptyRunEndsInSystemExit ==
    /\ out_csv # None => rows # <<>>
    /\ (Ended /\ \A i \in DOMAIN json_files : ~PassesAllThree(json_files[i]))
          => (pc = "SystemExit" /\ idx = Len(json_files) /\ out_csv = None)

=============================================================================
